---- MODULE Spec2Model ----
(***************************************************************************)
(* A model of src/src/automata.py: epsilon_closure, convert_to_dfa (the    *)
(* subset construction) and process (the word classifier).                 *)
(*                                                                         *)
(* An automaton is the tuple (Q, Sigma, delta, q0, F) that load_automata   *)
(* returns.  delta maps a pair <<origin, symbol>> to either one            *)
(* destination (a Python str) or several (a Python list); the two shapes   *)
(* are kept apart as records with kind "str" and kind "list".              *)
(***************************************************************************)
EXTENDS Naturals, Sequences, FiniteSets, TLC

\* ------------------------------------------------------------------ bounds

\* The automata explored are those delta's that at most MaxRules rule lines
\* build.
MaxRules == 3

\* process is handed a list of at most MaxWords words that hold at most
\* MaxChars symbols in all.
MaxWords == 2
MaxChars == 3

\* The languages of an automaton and of its DFA are compared on every word
\* over the alphabet of at most MaxLangLen symbols.
MaxLangLen == 3

\* load_automata is explored on files of at most MaxLines rule lines.
MaxLines == 3

\* automata.py 9: a file of fewer lines is incomplete
MinLines == 5
\* automata.py 12-15, 25: the lines before the rule lines
HeaderLines == 4
\* automata.py 27: the fields of a rule line
RuleFields == 3

\* The universe of state names and the alphabet of the automata explored.
\* epsilon_closure on its own is explored over three states, where a chain
\* of two epsilon edges exists.
States == {"q0", "q1"}
ClosureStates == {"q0", "q1", "q2"}
Alphabet == {"a", "b"}
Epsilon == "&"
RuleSymbols == Alphabet \cup {Epsilon}
\* The characters of the words: the alphabet, the epsilon marker and one
\* character outside both.
WordChars == Alphabet \cup {Epsilon, "c"}

VARIABLES
    \* load_automata: the four header lines of the file and the number of its
    \* rule lines, the rule lines the loop of line 25 has taken so far, and
    \* the message of the exception raised ("" when none)
    file, rule_lines, error,
    \* the automaton handed to convert_to_dfa / process
    Q, Sigma, delta, q0, F,
    \* the order in which this run's `for symbol in Sigma` walks the set
    sigma_iter,
    \* control
    pc,
    \* epsilon_closure(q0, delta) of line 96, step by step
    closure, stack,
    \* convert_to_dfa
    new_Q, new_delta, unprocessed_states, state_mapping, new_F, state_counter,
    current_subset, current_state_name, sym_idx,
    \* process: the words taken from the list so far (the last one is the
    \* word being walked), the position of the next symbol in it, and the
    \* locals of lines 51-55
    words, pos, results, current_state, valid

load_vars == <<file, rule_lines, error>>
nfa_vars == <<Q, Sigma, delta, q0, F, sigma_iter>>
closure_vars == <<closure, stack>>
dfa_vars == <<new_Q, new_delta, unprocessed_states, state_mapping, new_F,
              state_counter, current_subset, current_state_name, sym_idx>>
proc_vars == <<words, pos, results, current_state, valid>>
vars == <<load_vars, nfa_vars, pc, closure_vars, dfa_vars, proc_vars>>

\* ------------------------------------------------------- helpers (Python)

\* d[k] = v on a dict d
DictPut(d, k, v) == [x \in (DOMAIN d) \cup {k} |-> IF x = k THEN v ELSE d[x]]

EmptyDict == [x \in {} |-> x]

\* The elements of a sequence
Range(s) == {s[i] : i \in 1..Len(s)}

\* All sequences over S of length at most n
RECURSIVE SeqsUpTo(_, _)
SeqsUpTo(S, n) ==
    IF n = 0 THEN {<<>>}
    ELSE LET shorter == SeqsUpTo(S, n - 1)
         IN shorter \cup {Append(s, x) : s \in {t \in shorter : Len(t) = n - 1}, x \in S}

\* All orders in which a set can be walked
RECURSIVE Permutations_(_)
Permutations_(S) ==
    IF S = {} THEN {<<>>}
    ELSE UNION {{<<x>> \o p : p \in Permutations_(S \ {x})} : x \in S}

\* --------------------------------------------------- delta, as loaded

StrValue(d) == [kind |-> "str", str |-> d]
ListValue(ds) == [kind |-> "list", items |-> ds]

\* A mutant of AddRule: a third destination makes a new pair of the last
\* destination and the new one, as the second did
AddRuleKeepTwo(dl, origin, symbol, destination) ==
    LET key == <<origin, symbol>>
    IN IF key \notin DOMAIN dl
       THEN DictPut(dl, key, StrValue(destination))
       ELSE IF dl[key].kind = "list"
            THEN DictPut(dl, key, ListValue(<<dl[key].items[Len(dl[key].items)], destination>>))
            ELSE DictPut(dl, key, ListValue(<<dl[key].str, destination>>))

\* automata.py 32-38: one rule line added to delta
AddRule(dl, origin, symbol, destination) ==
    LET key == <<origin, symbol>>
    IN IF key \notin DOMAIN dl
       THEN DictPut(dl, key, StrValue(destination))
       ELSE IF dl[key].kind = "list"
            THEN DictPut(dl, key, ListValue(Append(dl[key].items, destination)))
            ELSE DictPut(dl, key, ListValue(<<dl[key].str, destination>>))

\* automata.py 23-38: delta after the rule lines, in file order
RECURSIVE LoadRules(_, _)
LoadRules(dl, rules) ==
    IF rules = <<>> THEN dl
    ELSE LoadRules(AddRule(dl, rules[1][1], rules[1][2], rules[1][3]), Tail(rules))

RuleLines == States \X RuleSymbols \X States

Deltas == {LoadRules(EmptyDict, rules) : rules \in SeqsUpTo(RuleLines, MaxRules)}

ClosureRuleLines == ClosureStates \X {Epsilon, "a"} \X ClosureStates

ClosureDeltas == {LoadRules(EmptyDict, rules) : rules \in SeqsUpTo(ClosureRuleLines, MaxRules)}

\* ------------------------------------------------------ epsilon_closure

\* automata.py 82-83 (and 115): a str is wrapped into a one-element list
Destinations(value) ==
    IF value.kind = "str" THEN <<value.str>> ELSE value.items

\* A mutant of PushDests: no visited test, every destination is pushed
RECURSIVE PushDestsNoVisited(_, _, _, _)
PushDestsNoVisited(cl, st, dests, i) ==
    IF i > Len(dests) THEN <<cl, st>>
    ELSE PushDestsNoVisited(cl \cup {dests[i]}, Append(st, dests[i]), dests, i + 1)

\* A mutant of PushDests: a new destination is added to the closure and not
\* pushed, so that its own epsilon edges are never followed
RECURSIVE PushDestsNoStack(_, _, _, _)
PushDestsNoStack(cl, st, dests, i) ==
    IF i > Len(dests) THEN <<cl, st>>
    ELSE PushDestsNoStack(cl \cup {dests[i]}, st, dests, i + 1)

\* automata.py 84-87: the for loop over the destinations
RECURSIVE PushDests(_, _, _, _)
PushDests(cl, st, dests, i) ==
    IF i > Len(dests) THEN <<cl, st>>
    ELSE IF dests[i] \notin cl
         THEN PushDests(cl \cup {dests[i]}, Append(st, dests[i]), dests, i + 1)
         ELSE PushDests(cl, st, dests, i + 1)

\* A mutant of ClosureIteration: only a str value is followed, a list of
\* destinations is passed over
ClosureIterationStrOnly(cl, st, dl) ==
    LET cur == st[Len(st)]
        popped == SubSeq(st, 1, Len(st) - 1)
    IN IF <<cur, Epsilon>> \in DOMAIN dl /\ dl[<<cur, Epsilon>>].kind = "str"
       THEN PushDests(cl, popped, <<dl[<<cur, Epsilon>>].str>>, 1)
       ELSE <<cl, popped>>

\* automata.py 79-87: one iteration of `while stack`; yields <<closure, stack>>
ClosureIteration(cl, st, dl) ==
    LET cur == st[Len(st)]
        popped == SubSeq(st, 1, Len(st) - 1)
    IN IF <<cur, Epsilon>> \in DOMAIN dl
       THEN PushDests(cl, popped, Destinations(dl[<<cur, Epsilon>>]), 1)
       ELSE <<cl, popped>>

\* automata.py 78-88: the while loop, run to its end
RECURSIVE ClosureLoop(_, _, _)
ClosureLoop(cl, st, dl) ==
    IF st = <<>> THEN cl
    ELSE LET r == ClosureIteration(cl, st, dl)
         IN ClosureLoop(r[1], r[2], dl)

\* automata.py 75-88
epsilon_closure(state, dl) == ClosureLoop({state}, <<state>>, dl)

\* ------------------------------------------------------- convert_to_dfa

\* automata.py 121: f'S{state_counter}'
StateName(n) == "S" \o ToString(n)

\* A mutant of IsFinalSubset: issubset in place of not isdisjoint
IsFinalSubsetAll(subset, finals) == subset \subseteq finals

\* automata.py 106: not current_subset.isdisjoint(F)
IsFinalSubset(subset, finals) == subset \cap finals # {}

\* A mutant of IsFresh: a configuration counts as new until it has been
\* expanded (it is looked up in new_Q, by its name)
IsFreshUnexpanded(next_subset, mapping) ==
    /\ next_subset # {}
    /\ (next_subset \notin DOMAIN mapping \/ mapping[next_subset] \notin new_Q)

\* A mutant of IsFresh: the test of line 119 left out, so that the empty
\* configuration is named too
IsFreshOrEmpty(next_subset, mapping) == next_subset \notin DOMAIN mapping

\* automata.py 119-120: the configuration is new
IsFresh(next_subset, mapping) ==
    next_subset # {} /\ next_subset \notin DOMAIN mapping

\* A mutant of NextSubset: of a list of destinations only the first is
\* followed
NextSubsetFirstDestination(subset, symbol, dl) ==
    UNION {epsilon_closure(Destinations(dl[<<state, symbol>>])[1], dl)
           : state \in {s \in subset : <<s, symbol>> \in DOMAIN dl}}

\* A mutant of NextSubset: the destinations are taken without their
\* epsilon-closure (line 116 left out)
NextSubsetNoClosure(subset, symbol, dl) ==
    UNION {Range(Destinations(dl[<<state, symbol>>]))
           : state \in {s \in subset : <<s, symbol>> \in DOMAIN dl}}

\* automata.py 112-117: the frozenset comprehension
NextSubset(subset, symbol, dl) ==
    UNION {UNION {epsilon_closure(dest, dl) : dest \in Range(Destinations(dl[<<state, symbol>>]))}
           : state \in {s \in subset : <<s, symbol>> \in DOMAIN dl}}

\* ------------------------------------------------------------- actions

\* The automaton is handed over in memory: no file is read
NoFile == [Sigma |-> {}, Q |-> {}, F |-> {}, q0 |-> "", rules |-> 0]

\* The state once the arguments are bound and epsilon_closure(q0, delta) of
\* line 96 has run lines 76-77.
InitCommon ==
    /\ file = NoFile
    /\ rule_lines = <<>>
    /\ error = ""
    /\ pc = "closure"
    /\ closure = {q0}
    /\ stack = <<q0>>
    /\ new_Q = {}
    /\ new_delta = EmptyDict
    /\ unprocessed_states = <<>>
    /\ state_mapping = EmptyDict
    /\ new_F = {}
    /\ state_counter = 0
    /\ current_subset = {}
    /\ current_state_name = ""
    /\ sym_idx = 0
    /\ words = <<>>
    /\ pos = 0
    /\ results = EmptyDict
    /\ current_state = ""
    /\ valid = TRUE

\* Every automaton of the bounds, as load_automata validates it: q0 in Q,
\* F a subset of Q, every rule over Q and Sigma or the epsilon marker.  The
\* rules and final sets range over everything, so that an automaton whose
\* initial state is q1 is one of these with the two names exchanged.
InitConv ==
    /\ Sigma = Alphabet
    /\ sigma_iter \in Permutations_(Sigma)
    /\ q0 = "q0"
    /\ Q = States
    /\ F \in SUBSET States
    /\ delta \in Deltas
    /\ InitCommon

\* automata.py 78-87, inside the call of line 96
ClosureIter ==
    /\ pc = "closure"
    /\ stack # <<>>
    /\ LET r == ClosureIteration(closure, stack, delta)
       IN /\ closure' = r[1]
          /\ stack' = r[2]
    /\ UNCHANGED <<load_vars, nfa_vars, pc, dfa_vars, proc_vars>>

\* automata.py 78, 88: the stack is empty; the closure is returned
ClosureReturn ==
    /\ pc = "closure"
    /\ stack = <<>>
    /\ pc' = "closed"
    /\ UNCHANGED <<load_vars, nfa_vars, closure_vars, dfa_vars, proc_vars>>

\* A mutant of Setup: the first configuration is q0 alone, not its
\* epsilon-closure
SetupNoClosure ==
    /\ pc = "closed"
    /\ new_Q' = {}
    /\ new_delta' = EmptyDict
    /\ unprocessed_states' = <<{q0}>>
    /\ state_mapping' = DictPut(EmptyDict, {q0}, StateName(0))
    /\ new_F' = {}
    /\ state_counter' = 1
    /\ pc' = "worklist"
    /\ UNCHANGED <<load_vars, nfa_vars, closure_vars, current_subset, current_state_name, sym_idx, proc_vars>>

\* automata.py 94-100: the locals of convert_to_dfa are set up; line 97 calls
\* epsilon_closure(q0, delta) a second time
Setup ==
    /\ pc = "closed"
    /\ new_Q' = {}
    /\ new_delta' = EmptyDict
    /\ unprocessed_states' = <<closure>>
    /\ state_mapping' = DictPut(EmptyDict, epsilon_closure(q0, delta), StateName(0))
    /\ new_F' = {}
    /\ state_counter' = 1
    /\ pc' = "worklist"
    /\ UNCHANGED <<load_vars, nfa_vars, closure_vars, current_subset, current_state_name, sym_idx, proc_vars>>

\* A mutant of Pop: the name is added to new_Q inside the test of line 106,
\* so only for a configuration that holds a final state
PopFinalOnly ==
    /\ pc = "worklist"
    /\ unprocessed_states # <<>>
    /\ LET subset == unprocessed_states[Len(unprocessed_states)]
       IN /\ unprocessed_states' = SubSeq(unprocessed_states, 1, Len(unprocessed_states) - 1)
          /\ current_subset' = subset
          /\ IF subset \notin DOMAIN state_mapping
             THEN /\ pc' = "KeyError"
                  /\ UNCHANGED <<current_state_name, new_F, new_Q, sym_idx>>
             ELSE /\ current_state_name' = state_mapping[subset]
                  /\ new_F' = IF IsFinalSubset(subset, F)
                              THEN new_F \cup {state_mapping[subset]}
                              ELSE new_F
                  /\ new_Q' = IF IsFinalSubset(subset, F)
                              THEN new_Q \cup {state_mapping[subset]}
                              ELSE new_Q
                  /\ sym_idx' = 1
                  /\ pc' = IF sigma_iter = <<>> THEN "worklist" ELSE "symbols"
    /\ UNCHANGED <<load_vars, nfa_vars, closure_vars, new_delta, state_mapping, state_counter, proc_vars>>

\* automata.py 102-109: a configuration is taken off the worklist
Pop ==
    /\ pc = "worklist"
    /\ unprocessed_states # <<>>
    /\ LET subset == unprocessed_states[Len(unprocessed_states)]
       IN /\ unprocessed_states' = SubSeq(unprocessed_states, 1, Len(unprocessed_states) - 1)
          /\ current_subset' = subset
          /\ IF subset \notin DOMAIN state_mapping
             THEN /\ pc' = "KeyError"
                  /\ UNCHANGED <<current_state_name, new_F, new_Q, sym_idx>>
             ELSE /\ current_state_name' = state_mapping[subset]
                  /\ new_F' = IF IsFinalSubset(subset, F)
                              THEN new_F \cup {state_mapping[subset]}
                              ELSE new_F
                  /\ new_Q' = new_Q \cup {state_mapping[subset]}
                  /\ sym_idx' = 1
                  /\ pc' = IF sigma_iter = <<>> THEN "worklist" ELSE "symbols"
    /\ UNCHANGED <<load_vars, nfa_vars, closure_vars, new_delta, state_mapping, state_counter, proc_vars>>

\* A mutant of SymbolIter: the transition is recorded only when the
\* configuration is new (line 125 inside the test of line 120)
SymbolIterFreshOnly ==
    /\ pc = "symbols"
    /\ sym_idx <= Len(sigma_iter)
    /\ LET symbol == sigma_iter[sym_idx]
           next_subset == NextSubset(current_subset, symbol, delta)
           fresh == IsFresh(next_subset, state_mapping)
           mapping == IF fresh
                      THEN DictPut(state_mapping, next_subset, StateName(state_counter))
                      ELSE state_mapping
       IN /\ state_mapping' = mapping
          /\ unprocessed_states' = IF fresh
                                   THEN Append(unprocessed_states, next_subset)
                                   ELSE unprocessed_states
          /\ state_counter' = IF fresh THEN state_counter + 1 ELSE state_counter
          /\ new_delta' = IF fresh
                          THEN DictPut(new_delta, <<current_state_name, symbol>>, mapping[next_subset])
                          ELSE new_delta
    /\ sym_idx' = sym_idx + 1
    /\ pc' = IF sym_idx = Len(sigma_iter) THEN "worklist" ELSE "symbols"
    /\ UNCHANGED <<load_vars, nfa_vars, closure_vars, new_Q, new_F, current_subset, current_state_name, proc_vars>>

\* automata.py 111-125: one iteration of `for symbol in Sigma`
SymbolIter ==
    /\ pc = "symbols"
    /\ sym_idx <= Len(sigma_iter)
    /\ LET symbol == sigma_iter[sym_idx]
           next_subset == NextSubset(current_subset, symbol, delta)
           fresh == IsFresh(next_subset, state_mapping)
           mapping == IF fresh
                      THEN DictPut(state_mapping, next_subset, StateName(state_counter))
                      ELSE state_mapping
       IN /\ state_mapping' = mapping
          /\ unprocessed_states' = IF fresh
                                   THEN Append(unprocessed_states, next_subset)
                                   ELSE unprocessed_states
          /\ state_counter' = IF fresh THEN state_counter + 1 ELSE state_counter
          /\ new_delta' = IF next_subset # {}
                          THEN DictPut(new_delta, <<current_state_name, symbol>>, mapping[next_subset])
                          ELSE new_delta
    /\ sym_idx' = sym_idx + 1
    /\ pc' = IF sym_idx = Len(sigma_iter) THEN "worklist" ELSE "symbols"
    /\ UNCHANGED <<load_vars, nfa_vars, closure_vars, new_Q, new_F, current_subset, current_state_name, proc_vars>>

\* automata.py 102, 127: the worklist is empty; the DFA is returned
Return ==
    /\ pc = "worklist"
    /\ unprocessed_states = <<>>
    /\ pc' = "converted"
    /\ UNCHANGED <<load_vars, nfa_vars, closure_vars, dfa_vars, proc_vars>>

\* epsilon_closure called on its own: q0 is its `state` argument
InitClosure ==
    /\ Q = ClosureStates
    /\ Sigma = {"a"}
    /\ sigma_iter = <<"a">>
    /\ q0 \in ClosureStates
    /\ F = {}
    /\ delta \in ClosureDeltas
    /\ InitCommon

NextClosure ==
    \/ ClosureIter
    \/ ClosureReturn

SpecClosure == InitClosure /\ [][NextClosure]_vars

NextConv ==
    \/ ClosureIter
    \/ ClosureReturn
    \/ Setup
    \/ Pop
    \/ SymbolIter
    \/ Return

\* convert_to_dfa called on its own
SpecConv == InitConv /\ [][NextConv]_vars

\* automata.py 102-109 with the worklist taken in any order: the
\* configuration at any position is taken off, where the code's pop() takes
\* the last
PopAny ==
    /\ pc = "worklist"
    /\ \E i \in 1..Len(unprocessed_states) :
          LET subset == unprocessed_states[i]
          IN /\ unprocessed_states' = SubSeq(unprocessed_states, 1, i - 1)
                                          \o SubSeq(unprocessed_states, i + 1, Len(unprocessed_states))
             /\ current_subset' = subset
             /\ IF subset \notin DOMAIN state_mapping
                THEN /\ pc' = "KeyError"
                     /\ UNCHANGED <<current_state_name, new_F, new_Q, sym_idx>>
                ELSE /\ current_state_name' = state_mapping[subset]
                     /\ new_F' = IF IsFinalSubset(subset, F)
                                 THEN new_F \cup {state_mapping[subset]}
                                 ELSE new_F
                     /\ new_Q' = new_Q \cup {state_mapping[subset]}
                     /\ sym_idx' = 1
                     /\ pc' = IF sigma_iter = <<>> THEN "worklist" ELSE "symbols"
    /\ UNCHANGED <<load_vars, nfa_vars, closure_vars, new_delta, state_mapping, state_counter, proc_vars>>

NextAnyOrder ==
    \/ ClosureIter
    \/ ClosureReturn
    \/ Setup
    \/ PopAny
    \/ SymbolIter
    \/ Return

\* convert_to_dfa with its worklist taken in any order
SpecAnyOrder == InitConv /\ [][NextAnyOrder]_vars

\* ----------------------------------------------------------------- process

\* The automata process is run on.
ScenarioRules == << <<"q0", "a", "q1">>, <<"q0", "a", "q0">>, <<"q1", "b", "q1">> >>

Automaton(states, rules, initial, finals) ==
    [Q |-> states, delta |-> LoadRules(EmptyDict, rules), q0 |-> initial, F |-> finals]

\* The automaton of the scenarios: two destinations for (q0, a)
ScenarioAutomaton == Automaton(States, ScenarioRules, "q0", {"q1"})

\* The same with an epsilon edge into the final state
ScenarioEpsAutomaton ==
    Automaton(States, Append(ScenarioRules, <<"q0", Epsilon, "q1">>), "q0", {"q1"})

\* An epsilon cycle through both states
EpsCycleAutomaton ==
    Automaton(States, << <<"q0", Epsilon, "q1">>, <<"q1", Epsilon, "q0">>, <<"q1", "b", "q0">> >>,
              "q1", {"q0"})

\* An epsilon edge from the initial state to itself
EpsLoopAutomaton ==
    Automaton(States, << <<"q0", Epsilon, "q0">>, <<"q0", "a", "q1">>, <<"q1", "a", "q1">> >>,
              "q0", {"q1"})

\* Every state final, and both symbols discover a configuration from S0
BranchingAutomaton ==
    Automaton(States, << <<"q0", "b", "q1">>, <<"q0", "a", "q0">>, <<"q1", "a", "q1">> >>,
              "q0", {"q0", "q1"})

\* No rule and no final state
EmptyAutomaton == Automaton(States, <<>>, "q0", {})

\* Structurally invalid: the initial state is not among the states
InvalidAutomaton == Automaton({"q1"}, << <<"q1", "a", "q1">> >>, "q0", {"q1"})

SampleAutomata ==
    {ScenarioAutomaton, ScenarioEpsAutomaton, EpsCycleAutomaton, EpsLoopAutomaton,
     BranchingAutomaton, EmptyAutomaton, InvalidAutomaton}

Init ==
    /\ Sigma = Alphabet
    /\ sigma_iter \in Permutations_(Sigma)
    /\ \E m \in SampleAutomata :
          /\ Q = m.Q
          /\ delta = m.delta
          /\ q0 = m.q0
          /\ F = m.F
    /\ InitCommon

\* A mutant of IsForeign: the marker is not excepted
IsForeignOrMarker(symbol, alphabet) == symbol \notin alphabet

\* automata.py 57: the symbol is neither of the alphabet nor the marker
IsForeign(symbol, alphabet) == symbol \notin alphabet /\ symbol # Epsilon

\* A mutant of RecordMissing: the branch of the missing transition breaks
\* without recording a verdict
RecordMissingForgotten(res, word) == res

\* automata.py 64: the verdict of a word that meets a missing transition
RecordMissing(res, word) == DictPut(res, word, "REJEITA")

\* A mutant of ConsumedVerdict: the state is looked up in F, the automaton's
\* final states, in place of the DFA's
ConsumedVerdictInF(state, finals) ==
    IF state \in F THEN "ACEITA" ELSE "REJEITA"

\* automata.py 68-71: the verdict of a word that was consumed
ConsumedVerdict(state, finals) ==
    IF state \in finals THEN "ACEITA" ELSE "REJEITA"

\* The symbols of the words taken from the list so far
RECURSIVE CharsUsed(_)
CharsUsed(ws) == IF ws = <<>> THEN 0 ELSE Len(ws[1]) + CharsUsed(Tail(ws))

\* A mutant of NextWord: current_state is set to the DFA's initial state
\* before the loop over the words, not at the head of its body
NextWordCarried ==
    /\ pc \in {"converted", "words"}
    /\ Len(words) < MaxWords
    /\ \E word \in SeqsUpTo(WordChars, MaxChars) :
          /\ CharsUsed(words) + Len(word) <= MaxChars
          /\ words' = Append(words, word)
    /\ current_state' = IF words = <<>> THEN StateName(0) ELSE current_state
    /\ valid' = TRUE
    /\ pos' = 1
    /\ pc' = "walk"
    /\ UNCHANGED <<load_vars, nfa_vars, closure_vars, dfa_vars, results>>

\* automata.py 53-55: the next word of the list is taken
NextWord ==
    /\ pc \in {"converted", "words"}
    /\ Len(words) < MaxWords
    /\ \E word \in SeqsUpTo(WordChars, MaxChars) :
          /\ CharsUsed(words) + Len(word) <= MaxChars
          /\ words' = Append(words, word)
    /\ current_state' = StateName(0)
    /\ valid' = TRUE
    /\ pos' = 1
    /\ pc' = "walk"
    /\ UNCHANGED <<load_vars, nfa_vars, closure_vars, dfa_vars, results>>

\* automata.py 56-66: one iteration of `for symbol in word`
WalkSymbol ==
    /\ pc = "walk"
    /\ pos <= Len(words[Len(words)])
    /\ LET word == words[Len(words)]
           symbol == word[pos]
       IN IF IsForeign(symbol, Sigma)
          THEN /\ results' = DictPut(results, word, "INVALIDA")
               /\ valid' = FALSE
               /\ pc' = "words"
               /\ UNCHANGED <<current_state, pos>>
          ELSE IF <<current_state, symbol>> \in DOMAIN new_delta
               THEN /\ current_state' = new_delta[<<current_state, symbol>>]
                    /\ pos' = pos + 1
                    /\ UNCHANGED <<results, valid, pc>>
               ELSE /\ results' = RecordMissing(results, word)
                    /\ valid' = FALSE
                    /\ pc' = "words"
                    /\ UNCHANGED <<current_state, pos>>
    /\ UNCHANGED <<load_vars, nfa_vars, closure_vars, dfa_vars, words>>

\* automata.py 67-71: the word is consumed
WalkEnd ==
    /\ pc = "walk"
    /\ pos > Len(words[Len(words)])
    /\ IF valid
       THEN results' = DictPut(results, words[Len(words)],
                               ConsumedVerdict(current_state, new_F))
       ELSE UNCHANGED results
    /\ pc' = "words"
    /\ UNCHANGED <<load_vars, nfa_vars, closure_vars, dfa_vars, words, pos, current_state, valid>>

\* automata.py 53, 72: the list is exhausted; results is returned
Finish ==
    /\ pc \in {"converted", "words"}
    /\ pc' = "done"
    /\ UNCHANGED <<load_vars, nfa_vars, closure_vars, dfa_vars, proc_vars>>

Next ==
    \/ ClosureIter
    \/ ClosureReturn
    \/ Setup
    \/ Pop
    \/ SymbolIter
    \/ Return
    \/ NextWord
    \/ WalkSymbol
    \/ WalkEnd
    \/ Finish

\* process called on an automaton and a list of words
Spec == Init /\ [][Next]_vars

\* The sample automata with a cycle: an epsilon cycle through both states,
\* and an epsilon self-loop beside a symbol self-loop
CyclicAutomata == {EpsCycleAutomaton, EpsLoopAutomaton}

InitCyclic ==
    /\ Sigma = Alphabet
    /\ sigma_iter \in Permutations_(Sigma)
    /\ \E m \in CyclicAutomata :
          /\ Q = m.Q
          /\ delta = m.delta
          /\ q0 = m.q0
          /\ F = m.F
    /\ InitCommon

\* process on the automata with cycles.  The interpreter always runs the
\* next statement of a call that has not returned.
FairSpec == InitCyclic /\ [][Next]_vars /\ WF_vars(Next)

\* ------------------------------------------------------------ load_automata

\* The rule lines of the files, split into fields (line 26): the well-formed
\* ones, and one line for each way a line can be refused: a symbol outside
\* the alphabet, an origin and a destination outside the states, a blank
\* line, a line of two fields and a line of four.
GoodLines == States \X {"a", Epsilon} \X States

BadLines ==
    {<<"q0", "c", "q1">>, <<"q2", "a", "q0">>, <<"q0", "a", "q2">>,
     <<>>, <<"q0", "a">>, <<"q0", "a", "q1", "q1">>}

FileLines == GoodLines \cup BadLines

\* The files: the alphabet, the states, the final states and the initial
\* state of the four header lines, and the number of rule lines
Files ==
    [Sigma : {Alphabet}, Q : {States}, F : {{}, {"q1"}, {"q1", "q2"}},
     q0 : {"q0", "q2"}, rules : 0..MaxLines]

\* automata.py 43-44: the exception is raised again with a prefix
Wrapped(message) == "Error loading automaton: " \o message

\* A mutant of InvalidComponents: the destination is not looked at
InvalidComponentsNoDestination(origin, symbol, destination, states, alphabet) ==
    origin \notin states \/ (symbol \notin alphabet /\ symbol # Epsilon)

\* automata.py 30
InvalidComponents(origin, symbol, destination, states, alphabet) ==
    \/ origin \notin states
    \/ (symbol \notin alphabet /\ symbol # Epsilon)
    \/ destination \notin states

\* load_automata is called: nothing is bound yet.  The rule lines are drawn
\* as the loop of line 25 takes them, since a line the loop does not reach
\* has no effect on the call.
InitLoad ==
    /\ file \in Files \cup {NoFile}
    /\ rule_lines = <<>>
    /\ error = ""
    /\ pc = "load"
    /\ Q = {} /\ Sigma = {} /\ F = {} /\ q0 = "" /\ delta = EmptyDict
    /\ sigma_iter = <<>>
    /\ closure = {} /\ stack = <<>>
    /\ new_Q = {} /\ new_delta = EmptyDict /\ unprocessed_states = <<>>
    /\ state_mapping = EmptyDict /\ new_F = {} /\ state_counter = 0
    /\ current_subset = {} /\ current_state_name = "" /\ sym_idx = 0
    /\ words = <<>> /\ pos = 0 /\ results = EmptyDict
    /\ current_state = "" /\ valid = TRUE

\* automata.py 6, 41-42: there is no file of that name
LoadMissing ==
    /\ pc = "load"
    /\ file = NoFile
    /\ pc' = "raised"
    /\ error' = "File not found."
    /\ UNCHANGED <<file, rule_lines, nfa_vars, closure_vars, dfa_vars, proc_vars>>

\* automata.py 7-23: the file is read, the header lines are bound and checked
LoadHeader ==
    /\ pc = "load"
    /\ file # NoFile
    /\ IF HeaderLines + file.rules < MinLines
       THEN /\ pc' = "raised"
            /\ error' = Wrapped("Incomplete automaton description.")
            /\ UNCHANGED <<Sigma, Q, F, q0, delta>>
       ELSE /\ Sigma' = file.Sigma
            /\ Q' = file.Q
            /\ F' = file.F
            /\ q0' = file.q0
            /\ IF file.q0 \notin file.Q
               THEN /\ pc' = "raised"
                    /\ error' = Wrapped("Initial state not in set of states.")
                    /\ UNCHANGED delta
               ELSE IF ~(file.F \subseteq file.Q)
                    THEN /\ pc' = "raised"
                         /\ error' = Wrapped("Final states not in set of states.")
                         /\ UNCHANGED delta
                    ELSE /\ delta' = EmptyDict
                         /\ pc' = "rules"
                         /\ UNCHANGED error
    /\ UNCHANGED <<file, rule_lines, sigma_iter, closure_vars, dfa_vars, proc_vars>>

\* automata.py 25-38: one iteration of `for rule in lines[4:]`
LoadRule ==
    /\ pc = "rules"
    /\ Len(rule_lines) < file.rules
    /\ \E parts \in FileLines :
          /\ rule_lines' = Append(rule_lines, parts)
          /\ IF Len(parts) # RuleFields
             THEN /\ pc' = "raised"
                  /\ error' = Wrapped("Invalid transition rule format.")
                  /\ UNCHANGED delta
             ELSE IF InvalidComponents(parts[1], parts[2], parts[3], Q, Sigma)
                  THEN /\ pc' = "raised"
                       /\ error' = Wrapped("Invalid rule components.")
                       /\ UNCHANGED delta
                  ELSE /\ delta' = AddRule(delta, parts[1], parts[2], parts[3])
                       /\ UNCHANGED <<pc, error>>
    /\ UNCHANGED <<file, Q, Sigma, q0, F, sigma_iter, closure_vars, dfa_vars, proc_vars>>

\* automata.py 25, 40: the rule lines are exhausted; the automaton is returned
LoadReturn ==
    /\ pc = "rules"
    /\ Len(rule_lines) = file.rules
    /\ pc' = "loaded"
    /\ UNCHANGED <<load_vars, nfa_vars, closure_vars, dfa_vars, proc_vars>>

NextLoad ==
    \/ LoadMissing
    \/ LoadHeader
    \/ LoadRule
    \/ LoadReturn

\* load_automata called on a file
SpecLoad == InitLoad /\ [][NextLoad]_vars

(***************************************************************************)
(* Reference semantics of an automaton, stated on its rules and not on the *)
(* code's worklists: what the claims compare the code with.                *)
(***************************************************************************)

\* The destinations the rules give for (state, symbol)
RuleDests(dl, state, symbol) ==
    IF <<state, symbol>> \notin DOMAIN dl THEN {}
    ELSE IF dl[<<state, symbol>>].kind = "str"
         THEN {dl[<<state, symbol>>].str}
         ELSE Range(dl[<<state, symbol>>].items)

\* The states reachable from a set of states by zero or more epsilon rules
RECURSIVE EpsReach(_, _)
EpsReach(dl, S) ==
    LET more == S \cup UNION {RuleDests(dl, s, Epsilon) : s \in S}
    IN IF more = S THEN S ELSE EpsReach(dl, more)

\* The pairs <<state, n>> such that some path from q0 that reads the first n
\* symbols of the word, epsilon moves allowed anywhere, ends in the state
RECURSIVE NfaReach(_, _)
NfaReach(word, R) ==
    LET eps == UNION {{<<d, r[2]>> : d \in RuleDests(delta, r[1], Epsilon)} : r \in R}
        sym == UNION {{<<d, r[2] + 1>> : d \in RuleDests(delta, r[1], word[r[2] + 1])}
                      : r \in {x \in R : x[2] < Len(word)}}
        more == R \cup eps \cup sym
    IN IF more = R THEN R ELSE NfaReach(word, more)

NfaAccepts(word) ==
    \E f \in F : <<f, Len(word)>> \in NfaReach(word, {<<q0, 0>>})

\* automata.py 54-71 on the DFA in new_delta: the state the walk of the
\* word from S0 ends in, or "" when it meets a missing transition
RECURSIVE DfaRun(_, _, _)
DfaRun(state, word, i) ==
    IF i > Len(word) THEN state
    ELSE IF <<state, word[i]>> \in DOMAIN new_delta
         THEN DfaRun(new_delta[<<state, word[i]>>], word, i + 1)
         ELSE ""

DfaAccepts(word) == DfaRun(StateName(0), word, 1) \in new_F

\* ---------------------------------------------------------------- claims

\* C1: when convert_to_dfa has returned, the DFA accepts a word over the
\* alphabet (its run from S0 exists for every symbol and ends in new_F) if
\* and only if the automaton accepts it (a path from q0 labelled by the
\* word, with epsilon moves anywhere, ends in F).
C1_SameLanguage ==
    pc = "converted" =>
        \A word \in SeqsUpTo(Sigma, MaxLangLen) : DfaAccepts(word) <=> NfaAccepts(word)

\* C1's case: an automaton with an epsilon edge and a rule of several
\* destinations, a word of two symbols or more that both accept, and a word
\* that both refuse.
C1_Witness ==
    /\ pc = "converted"
    /\ \E s \in States : RuleDests(delta, s, Epsilon) \ {s} # {}
    /\ \E k \in DOMAIN delta : k[2] # Epsilon /\ delta[k].kind = "list"
    /\ \E word \in SeqsUpTo(Sigma, MaxLangLen) :
          Len(word) >= 2 /\ DfaAccepts(word) /\ NfaAccepts(word)
    /\ \E word \in SeqsUpTo(Sigma, MaxLangLen) :
          ~DfaAccepts(word) /\ ~NfaAccepts(word)

\* C4: when convert_to_dfa has returned, a name of new_Q is in new_F if and
\* only if the configuration mapped to that name holds a state of F.
C4_FinalIffIntersects ==
    pc = "converted" =>
        /\ \A name \in new_Q : \E subset \in DOMAIN state_mapping : state_mapping[subset] = name
        /\ \A subset \in DOMAIN state_mapping :
              state_mapping[subset] \in new_Q =>
                  (state_mapping[subset] \in new_F <=> subset \cap F # {})

\* C4's case: a final and a non-final DFA state, the final one for a
\* configuration of which only a part is in F.
C4_Witness ==
    /\ pc = "converted"
    /\ new_Q \ new_F # {}
    /\ \E subset \in DOMAIN state_mapping :
          /\ state_mapping[subset] \in new_F
          /\ subset \cap F # {}
          /\ subset \ F # {}

\* The configuration a symbol leads to from a configuration, by the rules
RefMove(subset, symbol) ==
    EpsReach(delta, UNION {RuleDests(delta, s, symbol) : s \in subset})

\* The non-empty configurations reachable from a set of configurations
RECURSIVE ReachConfigs(_)
ReachConfigs(CS) ==
    LET more == CS \cup ({RefMove(C, a) : C \in CS, a \in Sigma} \ {{}})
    IN IF more = CS THEN CS ELSE ReachConfigs(more)

ReachableConfigs == ReachConfigs({EpsReach(delta, {q0})})

\* C8: when convert_to_dfa has returned, the DFA's states are, one name
\* each, exactly the configurations reachable from the epsilon-closure of q0
\* by non-empty symbol moves, and they are at most 2^|Q|.
C8_ExactlyReachable ==
    pc = "converted" =>
        /\ DOMAIN state_mapping = ReachableConfigs
        /\ new_Q = {state_mapping[subset] : subset \in DOMAIN state_mapping}
        /\ Cardinality(new_Q) = Cardinality(DOMAIN state_mapping)
        /\ Cardinality(new_Q) <= 2 ^ Cardinality(Q)

\* C8's case: a DFA of two states, one of them a configuration of two
\* states, while a single state of Q is no DFA state (it is unreachable).
C8_Witness ==
    /\ pc = "converted"
    /\ Cardinality(new_Q) = 2
    /\ States \in DOMAIN state_mapping
    /\ \E s \in Q : {s} \notin DOMAIN state_mapping

\* C5: epsilon_closure(state, delta) returns exactly the states reachable
\* from state by zero or more epsilon rules: state itself is among them, a
\* state reached only through another symbol is not, and the result is
\* {state} when state has no epsilon rule; delta holds str and list values.
\* (q0 is the state argument; closure is what the loop of lines 78-87 built,
\* and the operator epsilon_closure is the same loop run in one piece.)
C5_ExactClosure ==
    pc = "closed" =>
        /\ closure = EpsReach(delta, {q0})
        /\ q0 \in closure
        /\ (<<q0, Epsilon>> \notin DOMAIN delta => closure = {q0})
        /\ epsilon_closure(q0, delta) = closure

\* C5's case: the state has several epsilon destinations (a list), and a
\* member of the closure has a rule on another symbol to a state that is
\* left out.
C5_Witness ==
    /\ pc = "closed"
    /\ <<q0, Epsilon>> \in DOMAIN delta
    /\ delta[<<q0, Epsilon>>].kind = "list"
    /\ Cardinality(closure) >= 2
    /\ \E s \in closure : RuleDests(delta, s, "a") \ closure # {}

\* C6: the closure of every member of epsilon_closure(s, delta) is a subset
\* of epsilon_closure(s, delta).
C6_ClosureOfMember ==
    pc = "closed" =>
        \A t \in closure : epsilon_closure(t, delta) \subseteq closure

\* C6's case: a member other than the state itself whose own closure is
\* more than the member and less than the whole closure.
C6_Witness ==
    /\ pc = "closed"
    /\ \E t \in closure \ {q0} :
          /\ epsilon_closure(t, delta) # {t}
          /\ epsilon_closure(t, delta) # closure

Verdicts == {"ACEITA", "REJEITA", "INVALIDA"}

\* The word of the list that is being, or was last, walked
CurrentWord == words[Len(words)]

\* C2 as claimed: a word with a symbol that is neither in Sigma nor the
\* epsilon marker gets INVALIDA, wherever the symbol stands.  The code
\* refutes it: a missing transition met before that symbol gives REJEITA.
C2_ForeignIsInvalid ==
    \A word \in DOMAIN results :
        (\E i \in 1..Len(word) : word[i] \notin Sigma /\ word[i] # Epsilon)
            => results[word] = "INVALIDA"

OverAlphabet(word) == \A i \in 1..Len(word) : word[i] \in Sigma

\* C3: for a word whose symbols are all in the alphabet the verdict is
\* REJEITA if the DFA's run from S0 meets a missing transition, else ACEITA
\* if the run ends in new_F and REJEITA if not; and the walk goes on only
\* while every symbol so far had its transition.
C3_AlphabetWordVerdict ==
    /\ \A word \in DOMAIN results :
          OverAlphabet(word) =>
              results[word] =
                  IF DfaRun(StateName(0), word, 1) = "" THEN "REJEITA"
                  ELSE IF DfaRun(StateName(0), word, 1) \in new_F THEN "ACEITA"
                  ELSE "REJEITA"
    /\ (pc = "walk" /\ OverAlphabet(CurrentWord)) =>
          /\ pos <= Len(CurrentWord) + 1
          /\ current_state # ""
          /\ current_state = DfaRun(StateName(0), SubSeq(CurrentWord, 1, pos - 1), 1)

\* C3's case: process has returned; one word over the alphabet of two
\* symbols or more was consumed and accepted, another met a missing
\* transition.
C3_Witness ==
    /\ pc = "done"
    /\ \E word \in DOMAIN results :
          /\ OverAlphabet(word)
          /\ Len(word) >= 2
          /\ results[word] = "ACEITA"
    /\ \E word \in DOMAIN results :
          /\ OverAlphabet(word)
          /\ DfaRun(StateName(0), word, 1) = ""
          /\ results[word] = "REJEITA"

\* C9: between two words and at return, results has an entry for every word
\* taken from the list, every value is one of the three verdicts, nothing
\* else is in results, and no statement has raised.
C9_TotalOverWords ==
    /\ pc # "KeyError"
    /\ pc \in {"words", "done"} =>
          /\ \A i \in 1..Len(words) :
                /\ words[i] \in DOMAIN results
                /\ results[words[i]] \in Verdicts
          /\ DOMAIN results \subseteq Range(words)

\* C9's case: process has returned on a list with the empty word and a word
\* that holds the epsilon marker and a symbol outside the alphabet.
C9_Witness ==
    /\ pc = "done"
    /\ <<>> \in DOMAIN results
    /\ \E word \in DOMAIN results : Epsilon \in Range(word) /\ "c" \in Range(word)

\* C10 as claimed: handed an automaton whose q0 is not in Q, convert_to_dfa
\* does not return a DFA.  The code refutes it: Q is never read.
C10_InvalidIsRefused ==
    q0 \notin Q => pc \notin {"converted", "walk", "words", "done"}

\* C7: every call runs to its return: the stack of epsilon_closure and the
\* worklist of convert_to_dfa become empty, every word is left after at most
\* len(word) symbol steps, and process returns; also for automata with
\* epsilon cycles and self-loops.
C7_Terminates ==
    /\ <>(pc = "done")
    /\ [](pc = "walk" => pos <= Len(CurrentWord) + 1)

\* C7's case: process has returned on an automaton with an epsilon cycle,
\* after a word of two symbols or more was walked to its end.
C7_Witness ==
    /\ pc = "done"
    /\ \E s \in States : \E t \in RuleDests(delta, s, Epsilon) \ {s} :
          s \in RuleDests(delta, t, Epsilon)
    /\ \E word \in DOMAIN results :
          Len(word) >= 2 /\ OverAlphabet(word) /\ DfaRun(StateName(0), word, 1) # ""

\* The verdict of a word by the automaton's rules alone: the configuration
\* moves from the epsilon-closure of q0 by each symbol; a symbol that is
\* neither of the alphabet nor the marker makes the word INVALIDA, a symbol
\* that leads to no state (the marker, when it is no symbol of the alphabet,
\* leads to none) makes it REJEITA, and a consumed word is ACEITA when the
\* configuration holds a final state.
RECURSIVE RuleVerdict(_, _, _)
RuleVerdict(word, i, C) ==
    IF i > Len(word) THEN IF C \cap F # {} THEN "ACEITA" ELSE "REJEITA"
    ELSE IF word[i] \notin Sigma /\ word[i] # Epsilon THEN "INVALIDA"
    ELSE IF word[i] \notin Sigma \/ RefMove(C, word[i]) = {} THEN "REJEITA"
    ELSE RuleVerdict(word, i + 1, RefMove(C, word[i]))

\* automata.py 127: the DFA convert_to_dfa returns
BuiltDfa == <<new_Q, Sigma, new_delta, StateName(0), new_F>>

\* C11: the verdict recorded for a word is a function of the automaton and
\* of that word alone (whatever other words the list holds, and in whatever
\* order, and whatever names the DFA's states got); no step of
\* convert_to_dfa or process changes Q, Sigma, delta, q0 or F, and no step
\* of process changes the DFA that convert_to_dfa returned.
C11_PureVerdict ==
    /\ [](\A word \in DOMAIN results :
             results[word] = RuleVerdict(word, 1, EpsReach(delta, {q0})))
    /\ [][/\ <<Q, Sigma, delta, q0, F>>' = <<Q, Sigma, delta, q0, F>>
          /\ pc \in {"converted", "walk", "words", "done"} => BuiltDfa' = BuiltDfa]_vars

\* C11's case: process has returned on a list of two different words; the
\* first was accepted in a state other than S0, and the second, rejected
\* from S0, would have been accepted if walked from where the first ended.
C11_Witness ==
    /\ pc = "done"
    /\ Len(words) = 2
    /\ words[1] # words[2]
    /\ results[words[1]] = "ACEITA"
    /\ results[words[2]] = "REJEITA"
    /\ DfaRun(StateName(0), words[1], 1) \notin {"", StateName(0)}
    /\ DfaRun(DfaRun(StateName(0), words[1], 1), words[2], 1) \in new_F

\* A rule line the description's structural rules refuse
LineRefused(parts, states, alphabet) ==
    \/ Len(parts) # 3
    \/ parts[1] \notin states
    \/ parts[2] \notin alphabet \cup {"&"}
    \/ parts[3] \notin states

\* C12: load_automata goes on, or returns an automaton, only while the
\* initial state is in the state set, every final state is in the state
\* set and every rule line taken so far has three fields, an origin and a
\* destination in the state set and a symbol of the alphabet or '&'; a call
\* that returns has taken every rule line of the file and raised nothing,
\* and a call that does not go on has raised with a message.
C12_BadFileFails ==
    /\ pc \in {"load", "rules", "loaded", "raised"}
    /\ pc \in {"rules", "loaded"} =>
          /\ file.q0 \in file.Q
          /\ file.F \subseteq file.Q
          /\ \A i \in 1..Len(rule_lines) : ~LineRefused(rule_lines[i], file.Q, file.Sigma)
    /\ pc = "loaded" => Len(rule_lines) = file.rules /\ error = ""
    /\ pc = "raised" => error # ""

\* C12's case: the load has failed on the third rule line, whose
\* destination is no state, after two rule lines that were accepted.
C12_Witness ==
    /\ pc = "raised"
    /\ Len(rule_lines) = 3
    /\ \A i \in 1..2 : ~LineRefused(rule_lines[i], file.Q, file.Sigma)
    /\ Len(rule_lines[3]) = 3
    /\ rule_lines[3][1] \in file.Q
    /\ rule_lines[3][3] \notin file.Q
    /\ error = Wrapped("Invalid rule components.")

\* The destinations of the rule lines with an origin and a symbol, in file
\* order
RECURSIVE LineDests(_, _, _)
LineDests(ls, origin, symbol) ==
    IF ls = <<>> THEN <<>>
    ELSE IF ls[1][1] = origin /\ ls[1][2] = symbol
         THEN <<ls[1][3]>> \o LineDests(Tail(ls), origin, symbol)
         ELSE LineDests(Tail(ls), origin, symbol)

\* C17: when load_automata has returned, delta has an entry for a pair
\* (origin, symbol) if and only if some rule line has that origin and
\* symbol, and the entry holds the destinations of those lines, as many as
\* there are and in file order: the destination itself for one line, the
\* list of them for two or more.
C17_DeltaIsRuleLines ==
    pc = "loaded" =>
        \A origin \in file.Q : \A symbol \in file.Sigma \cup {Epsilon} :
            LET dests == LineDests(rule_lines, origin, symbol)
                key == <<origin, symbol>>
            IN /\ key \in DOMAIN delta <=> dests # <<>>
               /\ Len(dests) = 1 => delta[key] = StrValue(dests[1])
               /\ Len(dests) >= 2 => delta[key] = ListValue(dests)

\* C17's case: the load has returned on a file whose three rule lines have
\* the same origin and symbol and not all the same destination.
C17_Witness ==
    /\ pc = "loaded"
    /\ \E k \in DOMAIN delta :
          /\ delta[k].kind = "list"
          /\ Len(delta[k].items) = 3
          /\ Cardinality(Range(delta[k].items)) = 2

\* process is running on the automaton m
RunsOn(m) == Q = m.Q /\ delta = m.delta /\ q0 = m.q0 /\ F = m.F

\* The verdicts the scenarios give for the automaton with rules q0-a->q1,
\* q0-a->q0 and q1-b->q1
ScenarioVerdicts ==
    (<<"a", "a", "b">> :> "ACEITA") @@ (<<"a", "b">> :> "ACEITA")
        @@ (<<"b", "a">> :> "REJEITA") @@ (<<"a", "c">> :> "INVALIDA")

\* C13: on the scenario automaton the words aab and ab get ACEITA, ba gets
\* REJEITA and ac gets INVALIDA; with the rule q0-&->q1 added the empty
\* word gets ACEITA; and on every automaton the empty word gets ACEITA if
\* the states reachable from q0 by epsilon rules hold a final state, and
\* REJEITA if not.
C13_Scenarios ==
    /\ RunsOn(ScenarioAutomaton) =>
          \A word \in DOMAIN ScenarioVerdicts \cap DOMAIN results :
              results[word] = ScenarioVerdicts[word]
    /\ (RunsOn(ScenarioEpsAutomaton) /\ <<>> \in DOMAIN results) => results[<<>>] = "ACEITA"
    /\ <<>> \in DOMAIN results =>
          results[<<>>] = IF EpsReach(delta, {q0}) \cap F # {} THEN "ACEITA" ELSE "REJEITA"

\* C13's case: process has returned on the scenario automaton with the
\* rule q0-&->q1, on a list that holds the empty word and a word of the
\* scenarios.
C13_Witness ==
    /\ pc = "done"
    /\ RunsOn(ScenarioEpsAutomaton)
    /\ <<>> \in DOMAIN results
    /\ DOMAIN ScenarioVerdicts \cap DOMAIN results # {}

\* The symbols the loop of line 111 has finished for a configuration: all
\* of them once the configuration is expanded, those before sym_idx while
\* it is being expanded, none before
SymbolsDone(subset) ==
    IF subset \notin DOMAIN state_mapping \/ state_mapping[subset] \notin new_Q THEN {}
    ELSE IF pc = "symbols" /\ subset = current_subset
         THEN {sigma_iter[i] : i \in 1..(sym_idx - 1)}
         ELSE Sigma

\* C14: for every configuration C and every symbol a the loop has finished
\* for C, with D the states the rules reach from C by a and then by epsilon
\* rules: new_delta has a transition for (name of C, a) if and only if D is
\* not empty, and its target is the name of D; new_delta has nothing else,
\* and a symbol no rule carries labels no transition.
C14_TransitionIffNonEmpty ==
    /\ \A subset \in DOMAIN state_mapping : \A symbol \in SymbolsDone(subset) :
          LET D == RefMove(subset, symbol)
              key == <<state_mapping[subset], symbol>>
          IN /\ key \in DOMAIN new_delta <=> D # {}
             /\ D # {} => D \in DOMAIN state_mapping /\ new_delta[key] = state_mapping[D]
    /\ \A key \in DOMAIN new_delta :
          /\ \E subset \in DOMAIN state_mapping :
                state_mapping[subset] = key[1] /\ key[2] \in SymbolsDone(subset)
          /\ \E k \in DOMAIN delta : k[2] = key[2]

\* C14's case: convert_to_dfa has returned; some configuration has no
\* transition on a symbol that other states have rules for, and some
\* transition leads to a configuration of two states, one of them added by
\* an epsilon rule.
C14_Witness ==
    /\ pc = "converted"
    /\ \E subset \in DOMAIN state_mapping : \E symbol \in Sigma :
          /\ <<state_mapping[subset], symbol>> \notin DOMAIN new_delta
          /\ \E k \in DOMAIN delta : k[2] = symbol
    /\ \E subset \in DOMAIN state_mapping : \E symbol \in Sigma :
          /\ <<state_mapping[subset], symbol>> \in DOMAIN new_delta
          /\ Cardinality(RefMove(subset, symbol)) = 2
          /\ Cardinality(UNION {RuleDests(delta, s, symbol) : s \in subset}) = 1

\* The pairs of a reachable configuration and a symbol that leads it to
\* some state
RefMoves == {p \in ReachableConfigs \X Sigma : RefMove(p[1], p[2]) # {}}

\* C15: in whatever order the worklist is taken and the alphabet is walked,
\* the DFA returned is the automaton of the reachable configurations under a
\* one-to-one naming (state_mapping): its states name exactly the reachable
\* configurations, S0 the epsilon-closure of q0, its transitions are the
\* moves between configurations, its final states name the configurations
\* that hold a final state; so any two orders give DFAs equal up to the
\* names, and each accepts the words the automaton accepts.
C15_OrderChangesNamesOnly ==
    pc = "converted" =>
        /\ DOMAIN state_mapping = ReachableConfigs
        /\ \A C1 \in ReachableConfigs : \A C2 \in ReachableConfigs :
              state_mapping[C1] = state_mapping[C2] => C1 = C2
        /\ state_mapping[EpsReach(delta, {q0})] = StateName(0)
        /\ new_Q = {state_mapping[C] : C \in ReachableConfigs}
        /\ new_F = {state_mapping[C] : C \in {X \in ReachableConfigs : X \cap F # {}}}
        /\ DOMAIN new_delta = {<<state_mapping[p[1]], p[2]>> : p \in RefMoves}
        /\ \A p \in RefMoves :
              new_delta[<<state_mapping[p[1]], p[2]>>] = state_mapping[RefMove(p[1], p[2])]
        /\ \A word \in SeqsUpTo(Sigma, MaxLangLen) : DfaAccepts(word) <=> NfaAccepts(word)

\* C15's case: convert_to_dfa has returned a DFA of three states; S1 and S2
\* were both found from S0, S1 by the symbol b, which this run walked before
\* a, and S1 was expanded before S2, which is not the code's order.
C15_Witness ==
    /\ pc = "converted"
    /\ Cardinality(new_Q) = 3
    /\ sigma_iter = <<"b", "a">>
    /\ <<StateName(0), "b">> \in DOMAIN new_delta
    /\ <<StateName(0), "a">> \in DOMAIN new_delta
    /\ new_delta[<<StateName(0), "b">>] = StateName(1)
    /\ new_delta[<<StateName(0), "a">>] = StateName(2)
    /\ state_mapping[current_subset] = StateName(2)

\* The names given so far
Names == {state_mapping[subset] : subset \in DOMAIN state_mapping}

\* C16: once convert_to_dfa has set up its locals, state_mapping is one-to-one
\* and names the epsilon-closure of q0 S0; the names are S0 .. S(n-1) for
\* the n configurations mapped, and state_counter is n; a mapped
\* configuration is either on the worklist, once, or expanded, never both,
\* and at return all are expanded.  A step that maps a configuration maps
\* one new configuration, names it by state_counter, keeps the other names
\* and pushes it; no other step pushes; and a step that takes a
\* configuration off the worklist takes one that was not expanded.
C16_NamesInDiscoveryOrder ==
    /\ [](pc \in {"worklist", "symbols", "converted"} =>
            /\ \A C1 \in DOMAIN state_mapping : \A C2 \in DOMAIN state_mapping :
                  state_mapping[C1] = state_mapping[C2] => C1 = C2
            /\ state_mapping[EpsReach(delta, {q0})] = "S0"
            /\ state_counter = Cardinality(DOMAIN state_mapping)
            /\ Names = {"S" \o ToString(k) : k \in 0..(state_counter - 1)}
            /\ \A i \in 1..Len(unprocessed_states) : \A j \in 1..Len(unprocessed_states) :
                  unprocessed_states[i] = unprocessed_states[j] => i = j
            /\ \A subset \in DOMAIN state_mapping :
                  subset \in Range(unprocessed_states) <=> state_mapping[subset] \notin new_Q
            /\ Range(unprocessed_states) \subseteq DOMAIN state_mapping
            /\ pc = "converted" => new_Q = Names)
    /\ [][(pc \in {"worklist", "symbols"}) =>
            /\ state_mapping' # state_mapping =>
                  \E D \in (DOMAIN state_mapping') \ DOMAIN state_mapping :
                      /\ DOMAIN state_mapping' = DOMAIN state_mapping \cup {D}
                      /\ state_mapping'[D] = "S" \o ToString(state_counter)
                      /\ state_counter' = state_counter + 1
                      /\ \A C \in DOMAIN state_mapping : state_mapping'[C] = state_mapping[C]
                      /\ unprocessed_states' = Append(unprocessed_states, D)
            /\ Len(unprocessed_states') > Len(unprocessed_states) => state_mapping' # state_mapping
            /\ Len(unprocessed_states') < Len(unprocessed_states) =>
                  /\ state_mapping[current_subset'] \notin new_Q
                  /\ new_Q' = new_Q \cup {state_mapping[current_subset']}
        ]_vars

\* C16's case: convert_to_dfa has returned after naming three
\* configurations, one of which was reached again after it had its name.
C16_Witness ==
    /\ pc = "converted"
    /\ state_counter = 3
    /\ \E k1 \in DOMAIN new_delta : \E k2 \in DOMAIN new_delta :
          k1 # k2 /\ new_delta[k1] = new_delta[k2]

\* The configurations convert_to_dfa holds: the mapped ones, those on the
\* worklist and the one being expanded
HeldConfigs ==
    DOMAIN state_mapping \cup Range(unprocessed_states)
        \cup (IF pc = "symbols" THEN {current_subset} ELSE {})

\* C18: every configuration in state_mapping or on the worklist is a
\* non-empty set of states of Q that holds, with each of its members, every
\* state reachable from the member by epsilon rules; the empty set is no
\* key of state_mapping.
C18_ConfigsClosedNonEmpty ==
    /\ \A C \in HeldConfigs :
          /\ C # {}
          /\ C \subseteq Q
          /\ \A s \in C : EpsReach(delta, {s}) \subseteq C
    /\ {} \notin DOMAIN state_mapping

\* C18's case: convert_to_dfa has returned; a configuration of two states
\* holds a state for the epsilon rule of the other, and some configuration
\* and symbol lead to the empty set.
C18_Witness ==
    /\ pc = "converted"
    /\ \E C \in DOMAIN state_mapping :
          /\ Cardinality(C) = 2
          /\ \E s \in C : RuleDests(delta, s, Epsilon) \ {s} # {}
    /\ \E C \in DOMAIN state_mapping : \E symbol \in Sigma :
          /\ RefMove(C, symbol) = {}
          /\ \E k \in DOMAIN delta : k[2] = symbol

\* C19: when convert_to_dfa has returned, S0 is in new_Q, new_F is a subset
\* of new_Q, and every transition of new_delta goes from a state of new_Q
\* by a symbol of Sigma to a state of new_Q.
C19_DfaWellFormed ==
    pc = "converted" =>
        /\ "S0" \in new_Q
        /\ new_F \subseteq new_Q
        /\ \A key \in DOMAIN new_delta :
              /\ key[1] \in new_Q
              /\ key[2] \in Sigma
              /\ new_delta[key] \in new_Q

\* C19's case: a DFA of three states of which some are final and some are
\* not, with a transition into the state named last.
C19_Witness ==
    /\ pc = "converted"
    /\ Cardinality(new_Q) = 3
    /\ new_F # {}
    /\ new_Q \ new_F # {}
    /\ \E key \in DOMAIN new_delta : new_delta[key] = "S2" /\ key[1] # "S2"

\* The marker stands in the word at a position before which every symbol is
\* of the alphabet and has its transition in the DFA's run from S0
MarkerComesFirst(word) ==
    \E i \in 1..Len(word) :
        /\ word[i] = "&"
        /\ \A j \in 1..(i - 1) : word[j] \in Sigma
        /\ DfaRun(StateName(0), SubSeq(word, 1, i - 1), 1) # ""

\* C20: when '&' is no symbol of the alphabet, no transition of the DFA is
\* on '&', and a word in which '&' stands before any symbol outside the
\* alphabet and before any missing transition gets REJEITA.
C20_MarkerIsRejected ==
    "&" \notin Sigma =>
        /\ \A key \in DOMAIN new_delta : key[2] # "&"
        /\ \A word \in DOMAIN results : MarkerComesFirst(word) => results[word] = "REJEITA"

\* C20's case: process has returned on an automaton with an epsilon rule
\* from its initial state; a word was walked one symbol by a transition,
\* then met '&', and has a symbol outside the alphabet after it; without
\* the '&' the word's first symbol is accepted.
C20_Witness ==
    /\ pc = "done"
    /\ "&" \notin Sigma
    /\ RuleDests(delta, q0, "&") \ {q0} # {}
    /\ \E word \in DOMAIN results :
          /\ Len(word) = 3
          /\ word[1] \in Sigma
          /\ DfaRun(StateName(0), <<word[1]>>, 1) \in new_F
          /\ word[2] = "&"
          /\ word[3] = "c"
          /\ results[word] = "REJEITA"

====
